---- MODULE Spec2Model ----
(***************************************************************************)
(* A model of the SQL-AST analyzer of SQL-SchemaLens (analyzer.js):        *)
(* analyzeSqlAst and its helpers extractTableName, extractColumns,         *)
(* extractColumnName and buildDataType.                                    *)
(*                                                                         *)
(* The analyzer probes a loosely typed tree, so the model carries a small  *)
(* universe of JavaScript values and the language's own rules for property *)
(* reads, truthiness, typeof, && / ||, template literals and Map keys.     *)
(* A property read on undefined or null yields TypeError, which every      *)
(* operator propagates, so "never raises" is something the model decides.  *)
(***************************************************************************)
EXTENDS Naturals, Sequences, FiniteSets, TLC

(***************************************************************************)
(* JavaScript values.  A string is a sequence of one-character strings.    *)
(***************************************************************************)
Undefined == [k |-> "undefined"]
Null      == [k |-> "null"]
TypeError == [k |-> "TypeError"]
Bool(b)   == [k |-> "boolean", b |-> b]
Num(n)    == [k |-> "number", n |-> n]
Str(s)    == [k |-> "string", s |-> s]
Arr(e)    == [k |-> "array", e |-> e]
Obj(f)    == [k |-> "object", f |-> f]
\* an object that is only ever passed around, never read: its identity i
Ref(i)    == [k |-> "object", f |-> <<>>, id |-> i]

Throws(v) == v.k = "TypeError"

\* ToBoolean
Truthy(v) ==
  CASE v.k = "undefined" -> FALSE
    [] v.k = "null"      -> FALSE
    [] v.k = "boolean"   -> v.b
    [] v.k = "number"    -> v.n # 0
    [] v.k = "string"    -> v.s # <<>>
    [] OTHER             -> TRUE

\* the typeof operator
TypeOf(v) ==
  CASE v.k = "null"  -> "object"
    [] v.k = "array" -> "object"
    [] OTHER         -> v.k

\* v[name]: a property read.  undefined and null have no properties; strings
\* and arrays have length; the other names the analyzer reads exist on plain
\* objects only.
Get(v, name) ==
  CASE v.k = "TypeError"              -> v
    [] v.k \in {"undefined", "null"}  -> TypeError
    [] v.k = "object"                 -> IF name \in DOMAIN v.f THEN v.f[name] ELSE Undefined
    [] v.k = "array" /\ name = "length"  -> Num(Len(v.e))
    [] v.k = "string" /\ name = "length" -> Num(Len(v.s))
    [] OTHER                          -> Undefined

\* v[i] for an array index i (0-based)
Index(v, i) ==
  CASE v.k = "TypeError"              -> v
    [] v.k \in {"undefined", "null"}  -> TypeError
    [] v.k = "array"                  -> IF i < Len(v.e) THEN v.e[i + 1] ELSE Undefined
    [] v.k = "string"                 -> IF i < Len(v.s) THEN Str(<<v.s[i + 1]>>) ELSE Undefined
    [] OTHER                          -> Undefined

\* if (c) t else e
Cond(c, t, e) == IF Throws(c) THEN c ELSE IF Truthy(c) THEN t ELSE e
\* a && b, a || b, !a
And(a, b) == IF Throws(a) THEN a ELSE IF Truthy(a) THEN b ELSE a
Or(a, b)  == IF Throws(a) THEN a ELSE IF Truthy(a) THEN a ELSE b
Not(a)    == IF Throws(a) THEN a ELSE Bool(~Truthy(a))
\* typeof v === t, typeof v !== t
TypeofIs(v, t) == IF Throws(v) THEN v ELSE Bool(TypeOf(v) = t)
\* v > n for a number n
Gt(v, n) == IF Throws(v) THEN v ELSE Bool(v.k = "number" /\ v.n > n)
\* Array.isArray(v)
IsArray(v) == IF Throws(v) THEN v ELSE Bool(v.k = "array")
\* v !== undefined && v !== null
Present(v) == IF Throws(v) THEN v ELSE Bool(v.k \notin {"undefined", "null"})

\* a === b on the values the analyzer compares (strings), and the
\* SameValueZero comparison of Map keys: primitives by value, objects by
\* identity.
StrictEq(a, b) ==
  /\ a.k = b.k
  /\ CASE a.k = "string"  -> a.s = b.s
       [] a.k = "number"  -> a.n = b.n
       [] a.k = "boolean" -> a.b = b.b
       [] a.k = "object"  -> "id" \in DOMAIN a /\ "id" \in DOMAIN b /\ a.id = b.id
       [] a.k = "array"   -> FALSE
       [] OTHER           -> TRUE
SameValueZero(a, b) == StrictEq(a, b)
\* the expression a === b
Eq(a, b) == IF Throws(a) THEN a ELSE IF Throws(b) THEN b ELSE Bool(StrictEq(a, b))

(***************************************************************************)
(* Strings: toUpperCase, number formatting, template-literal conversion.   *)
(***************************************************************************)
Lower == <<"a","b","c","d","e","f","g","h","i","j","k","l","m",
           "n","o","p","q","r","s","t","u","v","w","x","y","z">>
Upper == <<"A","B","C","D","E","F","G","H","I","J","K","L","M",
           "N","O","P","Q","R","S","T","U","V","W","X","Y","Z">>
UpperChar(c) ==
  IF \E i \in 1..Len(Lower) : Lower[i] = c
  THEN Upper[CHOOSE i \in 1..Len(Lower) : Lower[i] = c]
  ELSE c
\* String.prototype.toUpperCase
toUpperCase(v) == Str([i \in 1..Len(v.s) |-> UpperChar(v.s[i])])

Digits == <<"0","1","2","3","4","5","6","7","8","9">>
RECURSIVE NumToChars(_)
NumToChars(n) ==
  IF n < 10 THEN <<Digits[n + 1]>>
  ELSE NumToChars(n \div 10) \o <<Digits[(n % 10) + 1]>>

\* `${v}`: ToString of a value inside a template literal
RECURSIVE ToChars(_)
ToChars(v) ==
  CASE v.k = "string"    -> v.s
    [] v.k = "number"    -> NumToChars(v.n)
    [] v.k = "boolean"   -> IF v.b THEN <<"t","r","u","e">> ELSE <<"f","a","l","s","e">>
    [] v.k = "undefined" -> <<"u","n","d","e","f","i","n","e","d">>
    [] v.k = "null"      -> <<"n","u","l","l">>
    [] v.k = "array"     ->
         IF v.e = <<>> THEN <<>>
         ELSE LET head == IF v.e[1].k \in {"undefined", "null"} THEN <<>> ELSE ToChars(v.e[1])
              IN IF Len(v.e) = 1 THEN head
                 ELSE head \o <<",">> \o ToChars(Arr(Tail(v.e)))
    [] OTHER             -> <<"[","o","b","j","e","c","t"," ","O","b","j","e","c","t","]">>

Unknown == <<"u","n","k","n","o","w","n">>

(***************************************************************************)
(* extractTableName(tableRef)                                              *)
(***************************************************************************)
extractTableName(tableRef) ==
  LET firstTable == Index(tableRef, 0)
      objectCase ==
        Cond(And(tableRef, TypeofIs(tableRef, "object")),
             Cond(TypeofIs(Get(tableRef, "table"), "string"),
                  Get(tableRef, "table"),
                  Cond(And(Get(tableRef, "table"), Get(Get(tableRef, "table"), "table")),
                       Get(Get(tableRef, "table"), "table"),
                       Null)),
             Null)
  IN Cond(TypeofIs(tableRef, "string"),
          tableRef,
          Cond(And(IsArray(tableRef), Gt(Get(tableRef, "length"), 0)),
               Cond(TypeofIs(firstTable, "string"),
                    firstTable,
                    Cond(And(firstTable, Get(firstTable, "table")),
                         Cond(TypeofIs(Get(firstTable, "table"), "string"),
                              Get(firstTable, "table"),
                              Get(Get(firstTable, "table"), "table")),
                         objectCase)),
               objectCase))

(***************************************************************************)
(* buildDataType(definition)                                               *)
(***************************************************************************)
\* the value of `length` (resp. `scale`) after the two probes, null if none
locate(definition, field) ==
  Cond(Present(Get(definition, field)),
       Get(definition, field),
       Cond(And(Get(definition, "dataType"),
                Present(Get(Get(definition, "dataType"), field))),
            Get(Get(definition, "dataType"), field),
            Null))

\* baseType with the nested tag taken for the default
baseType_NoDefault(definition) ==
  Cond(TypeofIs(Get(definition, "dataType"), "string"),
       toUpperCase(Get(definition, "dataType")),
       Cond(And(Get(definition, "dataType"),
                TypeofIs(Get(Get(definition, "dataType"), "dataType"), "string")),
            toUpperCase(Get(Get(definition, "dataType"), "dataType")),
            Str(<<>>)))

\* the base type after the two probes
baseType(definition) ==
  Cond(TypeofIs(Get(definition, "dataType"), "string"),
       toUpperCase(Get(definition, "dataType")),
       Cond(And(Get(definition, "dataType"),
                TypeofIs(Get(Get(definition, "dataType"), "dataType"), "string")),
            toUpperCase(Get(Get(definition, "dataType"), "dataType")),
            Str(Unknown)))

buildDataType(definition) ==
  Cond(Not(definition),
       Str(Unknown),
       LET dataType == baseType(definition)
           length   == locate(definition, "length")
           scale    == locate(definition, "scale")
       IN IF Throws(dataType) THEN dataType
          ELSE IF Throws(length) THEN length
          ELSE IF Throws(scale) THEN scale
          ELSE Cond(Present(length),
                    Cond(Present(scale),
                         Str(dataType.s \o <<"(">> \o ToChars(length) \o <<",">>
                                        \o ToChars(scale) \o <<")">>),
                         Str(dataType.s \o <<"(">> \o ToChars(length) \o <<")">>)),
                    dataType))

(***************************************************************************)
(* extractColumnName(def), extractColumns(definitions)                     *)
(***************************************************************************)
\* extractColumnName without the look two levels under the column field
extractColumnName_OneLevel(def) ==
  Cond(TypeofIs(Get(def, "column"), "string"),
       Get(def, "column"),
       Cond(And(Get(def, "column"),
                TypeofIs(Get(Get(def, "column"), "column"), "string")),
            Get(Get(def, "column"), "column"),
            Str(Unknown)))

extractColumnName(def) ==
  Cond(TypeofIs(Get(def, "column"), "string"),
       Get(def, "column"),
       Cond(And(Get(def, "column"),
                TypeofIs(Get(Get(def, "column"), "column"), "string")),
            Get(Get(def, "column"), "column"),
            Cond(And(Get(def, "column"),
                     And(Get(Get(def, "column"), "column"),
                         TypeofIs(Get(Get(Get(def, "column"), "column"), "column"), "string"))),
                 Get(Get(Get(def, "column"), "column"), "column"),
                 Str(Unknown))))

\* the predicate of definitions.filter
T_column == Str(<<"c","o","l","u","m","n">>)
\* the predicate of definitions.filter without its def && guard
isColumnDef_NoGuard(def) == Eq(Get(def, "resource"), T_column)

isColumnDef(def) == And(def, Eq(Get(def, "resource"), T_column))

RECURSIVE SelectDefs(_)
SelectDefs(defs) ==
  IF defs = <<>> THEN <<>>
  ELSE IF Truthy(isColumnDef(Head(defs)))
       THEN <<Head(defs)>> \o SelectDefs(Tail(defs))
       ELSE SelectDefs(Tail(defs))

\* Arr of [columnName, dataType] records, or TypeError
extractColumns(definitions) ==
  IF definitions.k # "array" THEN Arr(<<>>)
  ELSE IF \E i \in 1..Len(definitions.e) : Throws(isColumnDef(definitions.e[i]))
       THEN TypeError
  ELSE LET kept == SelectDefs(definitions.e)
           cols == [i \in 1..Len(kept) |->
                      [columnName |-> extractColumnName(kept[i]),
                       dataType   |-> buildDataType(Get(kept[i], "definition"))]]
       IN IF \E i \in 1..Len(cols) : Throws(cols[i].columnName) \/ Throws(cols[i].dataType)
          THEN TypeError
          ELSE Arr(cols)

(***************************************************************************)
(* The Map of analyzeSqlAst: entries in insertion order; set on a key that *)
(* is present replaces the value in place.                                 *)
(***************************************************************************)
MapIndex(m, key) ==
  IF \E i \in 1..Len(m) : SameValueZero(m[i].key, key)
  THEN CHOOSE i \in 1..Len(m) : SameValueZero(m[i].key, key)
  ELSE 0
MapHas(m, key) == MapIndex(m, key) # 0
MapGet(m, key) == m[MapIndex(m, key)].value
\* MapSet moving a key that is set again to the end
MapSet_MovesToEnd(m, key, value) ==
  Append(SelectSeq(m, LAMBDA en : ~SameValueZero(en.key, key)),
         [key |-> key, value |-> value])

MapSet(m, key, value) ==
  IF MapHas(m, key)
  THEN [m EXCEPT ![MapIndex(m, key)] = [key |-> key, value |-> value]]
  ELSE Append(m, [key |-> key, value |-> value])
\* Array.from(m.values())
MapValues(m) == [i \in 1..Len(m) |-> m[i].value]

(***************************************************************************)
(* The body of the forEach callback of analyzeSqlAst, on the accumulator   *)
(* acc (result.databaseName and tableMap): the accumulator afterwards, or  *)
(* TypeError.                                                              *)
(***************************************************************************)
Acc(databaseName, map) == [k |-> "acc", databaseName |-> databaseName, tableMap |-> map]
T_use    == Str(<<"u","s","e">>)
T_create == Str(<<"c","r","e","a","t","e">>)
T_insert == Str(<<"i","n","s","e","r","t">>)
T_table  == Str(<<"t","a","b","l","e">>)

\* caseUse keeping the first database name seen
caseUse_FirstWins(acc, statement) ==
  LET db == Get(statement, "db")
  IN IF Throws(db) THEN TypeError
     ELSE IF ~Truthy(db) \/ acc.databaseName # Null THEN acc
     ELSE LET name == Cond(TypeofIs(db, "string"), db, Or(Get(db, "db"), db))
          IN IF Throws(name) THEN TypeError
             ELSE [acc EXCEPT !.databaseName = name]

caseUse(acc, statement) ==
  LET db == Get(statement, "db")
  IN IF Throws(db) THEN TypeError
     ELSE IF ~Truthy(db) THEN acc
     ELSE LET name == Cond(TypeofIs(db, "string"), db, Or(Get(db, "db"), db))
          IN IF Throws(name) THEN TypeError
             ELSE [acc EXCEPT !.databaseName = name]

\* caseCreate keeping the row count of an entry it replaces
caseCreate_KeepsRowCount(acc, statement) ==
  LET guard == And(Eq(Get(statement, "keyword"), T_table), Get(statement, "table"))
      tableName == extractTableName(Get(statement, "table"))
      columns   == extractColumns(Get(statement, "create_definitions"))
  IN IF Throws(guard) THEN TypeError
     ELSE IF ~Truthy(guard) THEN acc
     ELSE IF Throws(tableName) THEN TypeError
     ELSE IF ~Truthy(tableName) THEN acc
     ELSE IF Throws(columns) THEN TypeError
     ELSE [acc EXCEPT !.tableMap =
             MapSet(@, tableName,
                    [tableName |-> tableName,
                     columns   |-> columns.e,
                     rowCount  |-> IF MapHas(acc.tableMap, tableName)
                                   THEN MapGet(acc.tableMap, tableName).rowCount
                                   ELSE 0])]

caseCreate(acc, statement) ==
  LET guard == And(Eq(Get(statement, "keyword"), T_table), Get(statement, "table"))
      tableName == extractTableName(Get(statement, "table"))
      columns   == extractColumns(Get(statement, "create_definitions"))
  IN IF Throws(guard) THEN TypeError
     ELSE IF ~Truthy(guard) THEN acc
     ELSE IF Throws(tableName) THEN TypeError
     ELSE IF ~Truthy(tableName) THEN acc
     ELSE IF Throws(columns) THEN TypeError
     ELSE [acc EXCEPT !.tableMap =
             MapSet(@, tableName, [tableName |-> tableName,
                                   columns   |-> columns.e,
                                   rowCount  |-> 0])]

\* caseInsert with every insert counted as one row
caseInsert_CountsOne(acc, statement) ==
  LET guard == Get(statement, "table")
      tableName == extractTableName(Get(statement, "table"))
      i == MapIndex(acc.tableMap, tableName)
  IN IF Throws(guard) THEN TypeError
     ELSE IF ~Truthy(guard) THEN acc
     ELSE IF Throws(tableName) THEN TypeError
     ELSE IF ~(Truthy(tableName) /\ MapHas(acc.tableMap, tableName)) THEN acc
     ELSE [acc EXCEPT !.tableMap[i].value.rowCount = @ + 1]

\* caseInsert creating the entry it does not find
caseInsert_Upsert(acc, statement) ==
  LET guard == Get(statement, "table")
      tableName == extractTableName(Get(statement, "table"))
      values == Get(statement, "values")
      i == MapIndex(acc.tableMap, tableName)
      n == IF Truthy(And(values, IsArray(values))) THEN Len(values.e) ELSE 1
  IN IF Throws(guard) THEN TypeError
     ELSE IF ~Truthy(guard) THEN acc
     ELSE IF Throws(tableName) THEN TypeError
     ELSE IF ~Truthy(tableName) THEN acc
     ELSE IF ~MapHas(acc.tableMap, tableName)
          THEN [acc EXCEPT !.tableMap =
                  Append(@, [key |-> tableName,
                             value |-> [tableName |-> tableName, columns |-> <<>>,
                                        rowCount |-> n]])]
          ELSE [acc EXCEPT !.tableMap[i].value.rowCount = @ + n]

\* caseInsert storing the tuple count of the statement instead of adding it
caseInsert_Overwrites(acc, statement) ==
  LET guard == Get(statement, "table")
      tableName == extractTableName(Get(statement, "table"))
      values == Get(statement, "values")
      i == MapIndex(acc.tableMap, tableName)
  IN IF Throws(guard) THEN TypeError
     ELSE IF ~Truthy(guard) THEN acc
     ELSE IF Throws(tableName) THEN TypeError
     ELSE IF ~(Truthy(tableName) /\ MapHas(acc.tableMap, tableName)) THEN acc
     ELSE IF Truthy(And(values, IsArray(values)))
          THEN [acc EXCEPT !.tableMap[i].value.rowCount = Len(values.e)]
          ELSE [acc EXCEPT !.tableMap[i].value.rowCount = 1]

caseInsert(acc, statement) ==
  LET guard == Get(statement, "table")
      tableName == extractTableName(Get(statement, "table"))
      values == Get(statement, "values")
      i == MapIndex(acc.tableMap, tableName)
  IN IF Throws(guard) THEN TypeError
     ELSE IF ~Truthy(guard) THEN acc
     ELSE IF Throws(tableName) THEN TypeError
     ELSE IF ~(Truthy(tableName) /\ MapHas(acc.tableMap, tableName)) THEN acc
     ELSE IF Truthy(And(values, IsArray(values)))
          THEN [acc EXCEPT !.tableMap[i].value.rowCount = @ + Len(values.e)]
          ELSE [acc EXCEPT !.tableMap[i].value.rowCount = @ + 1]

\* callback without the guard of line 25
callback_NoGuard(acc, statement) ==
  LET type == Get(statement, "type")
  IN IF Throws(type) THEN TypeError
     ELSE IF StrictEq(type, T_use) THEN caseUse(acc, statement)
     ELSE IF StrictEq(type, T_create) THEN caseCreate(acc, statement)
     ELSE IF StrictEq(type, T_insert) THEN caseInsert(acc, statement)
     ELSE acc

callback(acc, statement) ==
  LET skip == Or(Not(statement), Bool(TypeOf(statement) # "object"))
      type == Get(statement, "type")
  IN IF Truthy(skip) THEN acc
     ELSE IF Throws(type) THEN TypeError
     ELSE IF StrictEq(type, T_use) THEN caseUse(acc, statement)
     ELSE IF StrictEq(type, T_create) THEN caseCreate(acc, statement)
     ELSE IF StrictEq(type, T_insert) THEN caseInsert(acc, statement)
     ELSE acc

(***************************************************************************)
(* Inputs.  Statements in the shapes node-sql-parser produces, and a few   *)
(* that depart from them.                                                  *)
(***************************************************************************)
NameA == Str(<<"a">>)
NameB == Str(<<"b">>)
NameC == Str(<<"c">>)
DbX   == Str(<<"x">>)
DbY   == Str(<<"y">>)
Row   == Obj([type |-> Str(<<"e","x","p","r","_","l","i","s","t">>)])

\* [{db: null, table: name}], the parser's table reference
ParserRef(name) == Arr(<<Obj([db |-> Null, table |-> name])>>)
\* {table: {table: name}}
NestedRef(name) == Obj([table |-> Obj([table |-> name])])

ColumnDef(name, definition) ==
  Obj([column     |-> Obj([type |-> Str(<<"c","o","l","u","m","n","_","r","e","f">>),
                           column |-> name]),
       definition |-> definition,
       resource   |-> T_column])
ConstraintDef ==
  Obj([constraint_type |-> Str(<<"p","r","i","m","a","r","y"," ","k","e","y">>),
       resource        |-> Str(<<"c","o","n","s","t","r","a","i","n","t">>)])

TypeVarchar50 == Obj([dataType |-> Str(<<"v","a","r","c","h","a","r">>), length |-> Num(50)])
TypeDecimal   == Obj([dataType |-> Str(<<"D","E","C","I","M","A","L">>),
                      length |-> Num(10), scale |-> Num(2)])
DefsOne == Arr(<<ColumnDef(Str(<<"i","d">>), TypeDecimal)>>)
DefsTwo == Arr(<<ColumnDef(Str(<<"n","a","m","e">>), TypeVarchar50),
                 ConstraintDef,
                 ColumnDef(Str(<<"i","d">>), TypeDecimal)>>)

Use(db) == Obj([type |-> T_use, db |-> db])
CreateTable(ref, defs) ==
  Obj([type |-> T_create, keyword |-> T_table, table |-> ref, create_definitions |-> defs])
Insert(ref, values) == Obj([type |-> T_insert, table |-> ref, values |-> values])
InsertNoValues(ref) == Obj([type |-> T_insert, table |-> ref])

Statements ==
  { Use(DbX), Use(DbY), Use(Obj([db |-> DbX])), Obj([type |-> T_use]),
    CreateTable(NameA, DefsOne), CreateTable(ParserRef(NameA), DefsTwo),
    CreateTable(ParserRef(NameB), DefsOne), CreateTable(NestedRef(Num(7)), DefsOne),
    Obj([type |-> T_create, keyword |-> Str(<<"d","a","t","a","b","a","s","e">>),
         database |-> DbX]),
    InsertNoValues(ParserRef(NameA)), Insert(NameA, Arr(<<Row, Row>>)),
    Insert(NestedRef(NameA), Arr(<<Row>>)), Insert(ParserRef(NameA), Arr(<<>>)),
    Insert(ParserRef(NameB), Arr(<<Row>>)), Insert(ParserRef(NameC), Arr(<<Row>>)),
    Insert(NestedRef(Num(7)), Arr(<<Row>>)),
    Obj([type |-> Str(<<"s","e","l","e","c","t">>)]), Null }

\* top-level arguments that are not arrays
TopLevelValues ==
  { Null, Undefined, Str(<<"g","a","r","b","a","g","e">>), Num(5), Bool(TRUE),
    Use(DbX), CreateTable(ParserRef(NameA), DefsOne), Insert(NameA, Arr(<<Row>>)) }

\* the longest statement array
MaxStmts == 3

(***************************************************************************)
(* analyzeSqlAst as a state machine: the call, one step per element handed *)
(* to the forEach callback, and the return.  An array argument is revealed *)
(* one element at a time: ast holds the elements consumed so far, and      *)
(* Return closes the array.                                                *)
(***************************************************************************)
VARIABLES
  pc,         \* "idle", "forEach", "done", "raised"
  ast,        \* the argument: a non-array value, or the array consumed so far
  processed,  \* number of callback invocations
  result,     \* the result object [databaseName, totalTables, tables]
  tableMap,   \* the Map: a sequence of [key, value]
  call        \* the call made from outside the analyzer: [fn, arg, out], or the
              \* open-file-dialog request in progress

vars == <<pc, ast, processed, result, tableMap, call>>

NoCall == [fn |-> "none", arg |-> Undefined, out |-> Undefined]

\* const statements = Array.isArray(ast) ? ast : [ast]
statements == IF ast.k = "array" THEN ast.e ELSE <<ast>>

EmptyResult == [databaseName |-> Null, totalTables |-> 0, tables |-> <<>>]

Init ==
  /\ pc = "idle"
  /\ ast = Undefined
  /\ processed = 0
  /\ result = EmptyResult
  /\ tableMap = <<>>
  /\ call = NoCall

\* CallArray with the Map kept across calls, as a module-level Map would be
CallArray_SharedMap ==
  /\ pc = "idle"
  /\ pc' = "forEach"
  /\ ast' = Arr(<<>>)
  /\ processed' = 0
  /\ result' = EmptyResult
  /\ UNCHANGED <<tableMap, call>>

\* analyzeSqlAst(ast) entered with an array
CallArray ==
  /\ pc = "idle"
  /\ pc' = "forEach"
  /\ ast' = Arr(<<>>)
  /\ processed' = 0
  /\ result' = EmptyResult
  /\ tableMap' = <<>>
  /\ UNCHANGED call

\* analyzeSqlAst(ast) entered with anything else
CallValue(v) ==
  /\ pc = "idle"
  /\ pc' = "forEach"
  /\ ast' = v
  /\ processed' = 0
  /\ result' = EmptyResult
  /\ tableMap' = <<>>
  /\ UNCHANGED call

\* one invocation of the forEach callback, on statement
Step(statement) ==
  LET acc == callback(Acc(result.databaseName, tableMap), statement)
  IN /\ processed' = processed + 1
     /\ UNCHANGED call
     /\ IF Throws(acc)
        THEN /\ pc' = "raised"
             /\ UNCHANGED <<result, tableMap>>
        ELSE /\ pc' = "forEach"
             /\ result' = [result EXCEPT !.databaseName = acc.databaseName]
             /\ tableMap' = acc.tableMap

ForEachArray(statement) ==
  /\ pc = "forEach"
  /\ ast.k = "array"
  /\ Len(ast.e) < MaxStmts
  /\ ast' = Arr(Append(ast.e, statement))
  /\ Step(statement)

ForEachValue ==
  /\ pc = "forEach"
  /\ ast.k # "array"
  /\ processed = 0
  /\ UNCHANGED ast
  /\ Step(ast)

\* lines 68-72: the forEach is over
Return ==
  /\ pc = "forEach"
  /\ processed = Len(statements)
  /\ pc' = "done"
  /\ result' = [result EXCEPT !.tables = MapValues(tableMap),
                              !.totalTables = Len(MapValues(tableMap))]
  /\ UNCHANGED <<ast, processed, tableMap, call>>

Next ==
  \/ CallArray
  \/ \E v \in TopLevelValues : CallValue(v)
  \/ \E statement \in Statements : ForEachArray(statement)
  \/ ForEachValue
  \/ Return

Spec == Init /\ [][Next]_vars

(***************************************************************************)
(* Vocabulary of the claims, read off the input sequence alone.            *)
(***************************************************************************)
IsObject(st) == st.k = "object"
IsUse(st)         == IsObject(st) /\ StrictEq(Get(st, "type"), T_use)
IsCreateTable(st) == IsObject(st) /\ StrictEq(Get(st, "type"), T_create)
                                 /\ StrictEq(Get(st, "keyword"), T_table)
IsInsert(st)      == IsObject(st) /\ StrictEq(Get(st, "type"), T_insert)

\* the name a create or insert statement refers to; NoName when none is found
NoName == Null
TargetName(st) ==
  LET ref  == Get(st, "table")
      name == IF Truthy(ref) THEN extractTableName(ref) ELSE NoName
  IN IF Truthy(name) THEN name ELSE NoName
HasName(st) == TargetName(st) # NoName

IsCreateOf(st, T) == IsCreateTable(st) /\ HasName(st) /\ SameValueZero(TargetName(st), T)
IsInsertInto(st, T) == IsInsert(st) /\ HasName(st) /\ SameValueZero(TargetName(st), T)

\* value-tuple count of an insert: length of values when a sequence, else 1
TupleCount(st) ==
  LET values == Get(st, "values")
  IN IF values.k = "array" THEN Len(values.e) ELSE 1

\* position of the most recent create of T in seq, 0 when there is none
LastCreate(seq, T) ==
  IF \E i \in 1..Len(seq) : IsCreateOf(seq[i], T)
  THEN CHOOSE i \in 1..Len(seq) :
         /\ IsCreateOf(seq[i], T)
         /\ \A j \in (i + 1)..Len(seq) : ~IsCreateOf(seq[j], T)
  ELSE 0

RECURSIVE SumTuples(_, _, _)
\* tuples inserted into T by seq[from..Len(seq)]
SumTuples(seq, T, from) ==
  IF from > Len(seq) THEN 0
  ELSE (IF IsInsertInto(seq[from], T) THEN TupleCount(seq[from]) ELSE 0)
       + SumTuples(seq, T, from + 1)

ExpectedRowCount(seq, T) ==
  IF LastCreate(seq, T) = 0 THEN 0 ELSE SumTuples(seq, T, LastCreate(seq, T) + 1)

\* C1: in the returned result every table's rowCount is the sum of the
\* value-tuple counts of the inserts into its name that follow the most
\* recent create of that name; earlier inserts contribute nothing.
C1_RowCountIsSumAfterCreate ==
  pc = "done" =>
    \A i \in 1..Len(result.tables) :
       result.tables[i].rowCount = ExpectedRowCount(statements, result.tables[i].tableName)

\* C1 witness: a returned table counted two tuples after its create, and an
\* insert into the same name before the create was ignored.
C1_Witness ==
  /\ pc = "done"
  /\ \E i \in 1..Len(result.tables) :
       LET T == result.tables[i].tableName
       IN /\ result.tables[i].rowCount = 2
          /\ \E j \in 1..Len(statements) :
               /\ j < LastCreate(statements, T)
               /\ IsInsertInto(statements[j], T)
               /\ TupleCount(statements[j]) > 0

\* the statement the callback has just been invoked on
Stepped == pc = "forEach" /\ processed' = processed + 1
Current == statements'[processed']
\* the last statement handed to the callback so far
LastStatement == statements[processed]

\* C2: when a create-table for a name that already has an entry is processed,
\* the entry for that name afterwards has rowCount 0 and the columns of the
\* new statement's definitions.
C2_RedeclareResets ==
  [][(/\ Stepped
      /\ IsCreateTable(Current)
      /\ HasName(Current)
      /\ MapHas(tableMap, TargetName(Current)))
     => (/\ pc' = "forEach"
         /\ MapHas(tableMap', TargetName(Current))
         /\ MapGet(tableMap', TargetName(Current)).rowCount = 0
         /\ MapGet(tableMap', TargetName(Current)).columns
              = extractColumns(Get(Current, "create_definitions")).e)]_vars

\* C2 witness: a name was created, rows were counted against it, and it has
\* just been re-created with a different column list.
C2_Witness ==
  /\ pc = "forEach"
  /\ processed >= 3
  /\ \E i, j \in 1..(processed - 1) :
       LET T == TargetName(LastStatement)
       IN /\ i < j
          /\ IsCreateOf(LastStatement, T)
          /\ IsCreateOf(statements[i], T)
          /\ IsInsertInto(statements[j], T)
          /\ TupleCount(statements[j]) > 0
          /\ Get(statements[i], "create_definitions")
               # Get(LastStatement, "create_definitions")
          /\ MapGet(tableMap, T).rowCount = 0
          /\ Len(MapGet(tableMap, T).columns) = 2

\* the database-name token of a use statement: the db field when it is a
\* string, the db field of that when it is an object exposing one, else the
\* db field itself
UseTarget(st) ==
  LET db == Get(st, "db")
  IN IF db.k = "string" THEN db
     ELSE IF db.k = "object" /\ Truthy(Get(db, "db")) THEN Get(db, "db")
     ELSE db
\* absent and null both stand for "no database name"
SameName(a, b) ==
  IF a.k \in {"undefined", "null"} \/ b.k \in {"undefined", "null"}
  THEN a.k \in {"undefined", "null"} /\ b.k \in {"undefined", "null"}
  ELSE a = b
LastIndex(seq, P(_)) ==
  IF \E i \in 1..Len(seq) : P(seq[i])
  THEN CHOOSE i \in 1..Len(seq) : P(seq[i]) /\ \A j \in (i + 1)..Len(seq) : ~P(seq[j])
  ELSE 0
HasTarget(st) == IsUse(st) /\ Truthy(Get(st, "db"))

\* C3 as stated: whenever the input holds a use statement, the returned
\* databaseName is the target of the last use statement.
C3_LastUseWins_AsStated ==
  (pc = "done" /\ LastIndex(statements, IsUse) # 0)
    => SameName(result.databaseName, UseTarget(statements[LastIndex(statements, IsUse)]))

\* C3 amended: the returned databaseName is the target of the last use
\* statement whose db field is truthy, and null when there is none; a use
\* statement with an absent or empty db field leaves the value as it was.
C3_LastUseWithTargetWins ==
  pc = "done" =>
    IF LastIndex(statements, HasTarget) # 0
    THEN result.databaseName = UseTarget(statements[LastIndex(statements, HasTarget)])
    ELSE result.databaseName = Null

\* C3 witness: two use statements with different targets and then one with
\* no target; the second one's target is returned.
C3_Witness ==
  /\ pc = "done"
  /\ Len(statements) = 3
  /\ HasTarget(statements[1]) /\ HasTarget(statements[2])
  /\ UseTarget(statements[1]) # UseTarget(statements[2])
  /\ IsUse(statements[3]) /\ ~HasTarget(statements[3])
  /\ result.databaseName = UseTarget(statements[2])

\* C4: processing an insert whose target name has no create among the
\* statements already processed changes neither the table entries nor
\* databaseName, and raises nothing.
C4_InsertWithoutCreateIsNoOp ==
  [][(/\ Stepped
      /\ IsInsert(Current)
      /\ HasName(Current)
      /\ LastCreate(statements, TargetName(Current)) = 0)
     => (/\ pc' = "forEach"
         /\ tableMap' = tableMap
         /\ result' = result)]_vars

\* C4 witness: an insert into a name never created has just been processed
\* while another table has counted rows and a database name is set.
C4_Witness ==
  /\ pc = "forEach"
  /\ processed = 3
  /\ IsInsert(LastStatement)
  /\ HasName(LastStatement)
  /\ LastCreate(statements, TargetName(LastStatement)) = 0
  /\ Len(tableMap) = 1
  /\ tableMap[1].value.rowCount > 0

\* names of the create-table statements of seq whose name was extracted, each
\* once, in order of first appearance
RECURSIVE CreateOrder(_)
CreateOrder(seq) ==
  IF seq = <<>> THEN <<>>
  ELSE LET before == CreateOrder(SubSeq(seq, 1, Len(seq) - 1))
           last   == seq[Len(seq)]
       IN IF /\ IsCreateTable(last)
             /\ HasName(last)
             /\ ~\E i \in 1..Len(before) : SameValueZero(before[i], TargetName(last))
          THEN Append(before, TargetName(last))
          ELSE before

\* C5: the tableName values of result.tables are the distinct created names
\* in first-create order, and totalTables is their number.
C5_TablesInFirstCreateOrder ==
  pc = "done" =>
    /\ Len(result.tables) = Len(CreateOrder(statements))
    /\ \A i \in 1..Len(result.tables) :
         result.tables[i].tableName = CreateOrder(statements)[i]
    /\ result.totalTables = Len(CreateOrder(statements))

\* C5 witness: a name is created, then another, then the first again; the
\* result lists the two names in the order of their first create.
C5_Witness ==
  /\ pc = "done"
  /\ Len(statements) = 3
  /\ IsCreateOf(statements[1], TargetName(statements[1]))
  /\ IsCreateOf(statements[2], TargetName(statements[2]))
  /\ IsCreateOf(statements[3], TargetName(statements[1]))
  /\ TargetName(statements[1]) # TargetName(statements[2])
  /\ result.totalTables = 2
  /\ result.tables[1].tableName = TargetName(statements[1])

\* C6: a top-level argument that is neither an array nor an object (null
\* included) raises nothing and returns the empty result.
C6_MalformedTopLevelIsEmpty ==
  (pc # "idle" /\ (TypeOf(ast) # "object" \/ ast = Null))
    => /\ pc # "raised"
       /\ tableMap = <<>>
       /\ result = EmptyResult

\* C6 witness: the call on null has returned.
C6_Witness == pc = "done" /\ ast = Null /\ processed = 1

(***************************************************************************)
(* The helpers called directly, on table references and type               *)
(* sub-structures of every shape the probes distinguish.                   *)
(***************************************************************************)
Absent == [k |-> "absent"]
\* the record f with field name set to v, unless v is Absent
With(f, name, v) == IF v = Absent THEN f ELSE (name :> v) @@ f
NoFields == [n \in {} |-> Undefined]

\* what may sit where a name is expected
NameValues ==
  { Str(<<"a">>), Str(<<"U","s","e","r","s">>), Str(<<>>), Num(7), Num(0), Null,
    Undefined, Bool(TRUE), Ref(1), Obj(NoFields) }

TableRefs ==
  NameValues
    \cup { Arr(<<v>>) : v \in NameValues }
    \cup { Obj(With(NoFields, "table", v)) : v \in NameValues \cup {Absent} }
    \cup { Arr(<<Obj(With(NoFields, "table", v))>>) : v \in NameValues \cup {Absent} }
    \cup { Obj([table |-> Obj(With(NoFields, "table", v))]) : v \in NameValues }
    \cup { Arr(<<Obj([table |-> Obj(With(NoFields, "table", v))])>>) : v \in NameValues }
    \cup { Arr(<<>>), Arr(<<Null, Str(<<"a">>)>>), Obj([table |-> Arr(<<Str(<<"a">>)>>)]) }

T_int     == Str(<<"i","n","t">>)
T_decimal == Str(<<"D","e","c","i","m","a","l">>)
T_varchar == Str(<<"v","a","r","c","h","a","r">>)

MakeType(dataType, length, scale) ==
  Obj(With(With(With(NoFields, "dataType", dataType), "length", length), "scale", scale))

NestedTypes ==
  { MakeType(dt, l, sc) : dt \in {Absent, T_varchar, Num(5)},
                          l \in {Absent, Num(50)}, sc \in {Absent, Num(2)} }
TypeDefinitions ==
  { MakeType(dt, l, sc) :
      dt \in {Absent, Null, T_int, T_decimal, Str(<<>>), Num(5)} \cup NestedTypes,
      l  \in {Absent, Null, Num(10), Num(0), Str(<<"m","a","x">>)},
      sc \in {Absent, Null, Num(2)} }
\* values that are no type sub-structure at all
NonStructures == { Undefined, Null, Str(<<>>), Num(0), Num(3), Bool(TRUE) }

CallExtractTableName(tableRef) ==
  /\ call' = [fn |-> "extractTableName", arg |-> tableRef, out |-> extractTableName(tableRef)]
  /\ UNCHANGED <<pc, ast, processed, result, tableMap>>

CallBuildDataType(definition) ==
  /\ call' = [fn |-> "buildDataType", arg |-> definition, out |-> buildDataType(definition)]
  /\ UNCHANGED <<pc, ast, processed, result, tableMap>>

NextHelpers ==
  \/ \E tableRef \in TableRefs : CallExtractTableName(tableRef)
  \/ \E definition \in TypeDefinitions : CallBuildDataType(definition)
  \/ \E definition \in NonStructures : CallBuildDataType(definition)

SpecHelpers == Init /\ [][NextHelpers]_vars

\* a property read that yields undefined where JavaScript would raise
Prop(v, name) == IF v.k \in {"undefined", "null"} THEN Undefined ELSE Get(v, name)
IsPresent(v) == v.k \notin {"undefined", "null"}

\* the type tag of a type sub-structure: its string dataType, or the string
\* dataType one level under its dataType field; NoTag when neither exists
NoTag == Null
TypeTag(definition) ==
  LET outer == Prop(definition, "dataType")
      inner == Prop(outer, "dataType")
  IN IF ~Truthy(definition) THEN NoTag
     ELSE IF outer.k = "string" THEN outer
     ELSE IF Truthy(outer) /\ inner.k = "string" THEN inner
     ELSE NoTag

\* the value of a field the builder locates: on the sub-structure itself, else
\* on the value of its dataType field (a string there has its character count
\* for `length`)
Located(definition, field) ==
  LET outer == Prop(definition, field)
      inner == Prop(Prop(definition, "dataType"), field)
  IN IF ~Truthy(definition) THEN Null
     ELSE IF IsPresent(outer) THEN outer
     ELSE IF Truthy(Prop(definition, "dataType")) /\ IsPresent(inner) THEN inner
     ELSE Null

\* the field as declared: a field of the sub-structure, or of the object
\* under its dataType field
Declared(definition, field) ==
  LET nested == Prop(definition, "dataType")
  IN IF definition.k = "object" /\ IsPresent(Prop(definition, field))
     THEN Prop(definition, field)
     ELSE IF definition.k = "object" /\ nested.k = "object" /\ IsPresent(Prop(nested, field))
     THEN Prop(nested, field)
     ELSE Null

\* "(length,scale)", "(length)" or nothing
Suffix(length, scale) ==
  IF IsPresent(length) /\ IsPresent(scale)
  THEN <<"(">> \o ToChars(length) \o <<",">> \o ToChars(scale) \o <<")">>
  ELSE IF IsPresent(length) THEN <<"(">> \o ToChars(length) \o <<")">>
  ELSE <<>>

\* C8 as stated: with no type tag to be located, the data type is exactly
\* "unknown", whatever length and scale are present.
C8_NoTagIsUnknown_AsStated ==
  (call.fn = "buildDataType" /\ TypeTag(call.arg) = NoTag) => call.out = Str(Unknown)

\* C8 amended: with no type tag to be located, the data type is "unknown"
\* followed by the suffix of the located length and scale: exactly "unknown"
\* when no length is located, "unknown(length)" or "unknown(length,scale)"
\* when one is.
C8_NoTagIsUnknownPlusSuffix ==
  (call.fn = "buildDataType" /\ TypeTag(call.arg) = NoTag)
    => /\ call.out = Str(Unknown \o Suffix(Located(call.arg, "length"),
                                            Located(call.arg, "scale")))
       /\ (~IsPresent(Located(call.arg, "length")) => call.out = Str(Unknown))

\* C8 witness: a sub-structure with a length and a scale but no type tag has
\* been formatted as "unknown(10,2)".
C8_Witness ==
  /\ call.fn = "buildDataType"
  /\ TypeTag(call.arg) = NoTag
  /\ call.arg = MakeType(Absent, Num(10), Num(2))
  /\ call.out = Str(Unknown \o <<"(","1","0",",","2",")">>)

\* C9: with a base type located, the data type is the upper-cased base type
\* followed by "(length,scale)" when a length and a scale are declared, by
\* "(length)" when only a length is, and by nothing otherwise.
C9_TypeComposition ==
  (call.fn = "buildDataType" /\ TypeTag(call.arg) # NoTag)
    => call.out = Str(toUpperCase(TypeTag(call.arg)).s
                        \o Suffix(Declared(call.arg, "length"),
                                  Declared(call.arg, "scale")))

\* C10: table-name extraction returns a string or no name.
C10_NameIsStringOrNone ==
  call.fn = "extractTableName" => call.out.k \in {"string", "null", "undefined"}

(***************************************************************************)
(* analyzeSqlAst on arrays of malformed statements: every field missing,   *)
(* null, wrongly typed or wrongly nested, and elements that are no objects.*)
(***************************************************************************)
ShapeNames == { NameA, Str(<<>>), Num(7), Null }
ShapeRefs ==
  ShapeNames
    \cup { Arr(<<v>>) : v \in ShapeNames }
    \cup { Obj([table |-> v]) : v \in ShapeNames }
    \cup { Arr(<<Obj([table |-> v])>>) : v \in ShapeNames }
    \cup { NestedRef(v) : v \in ShapeNames }
    \cup { Arr(<<NestedRef(v)>>) : v \in ShapeNames }
    \cup { Arr(<<>>), Obj(NoFields), Arr(<<Obj(NoFields)>>), Num(3), Absent }

\* a column entry with the given column and definition fields
ColumnEntry(column, definition) ==
  Obj(With(With([resource |-> T_column], "column", column), "definition", definition))

\* a definition list with nothing where a column is expected
BrokenDefs ==
  Arr(<<Null, ColumnEntry(Absent, Absent), Str(<<"x">>), ColumnEntry(Null, Null)>>)

ShapeDefs ==
  { Absent, Null, Obj(NoFields), BrokenDefs,
    Arr(<<Undefined, Num(1), ConstraintDef, Obj(NoFields), Obj([resource |-> Null])>>),
    Arr(<<ColumnEntry(Str(<<"i","d">>), T_int),
          ColumnEntry(Obj([column |-> Null]), MakeType(Null, Absent, Absent)),
          ColumnEntry(Obj([column |-> Obj([column |-> Str(<<"i","d">>)])]),
                      MakeType(MakeType(T_int, Num(4), Absent), Absent, Absent))>>),
    Arr(<<ColumnEntry(Obj([column |-> Obj([column |-> Num(3)])]), Num(5)),
          ColumnEntry(Num(3), MakeType(Num(5), Null, Num(2))),
          ColumnEntry(Arr(<<>>), Arr(<<Num(1)>>))>>) }

ShapeCreate(ref, defs) ==
  Obj(With(With([type |-> T_create, keyword |-> T_table], "table", ref),
           "create_definitions", defs))
ShapeInsert(ref, values) ==
  Obj(With(With([type |-> T_insert], "table", ref), "values", values))

ShapeStatements ==
  { ShapeCreate(ref, DefsTwo) : ref \in ShapeRefs }
    \cup { ShapeCreate(NameA, defs) : defs \in ShapeDefs }
    \cup { Obj([type |-> T_create, table |-> NameA]),
           Obj([type |-> T_create, keyword |-> Null, table |-> NameA]) }
    \cup { ShapeInsert(ref, Arr(<<Row>>)) :
             ref \in { NameA, ParserRef(NameA), NestedRef(Num(7)), Arr(<<Null>>),
                       Obj([table |-> Null]), Ref(1), Absent } }
    \cup { ShapeInsert(NameA, values) :
             values \in { Absent, Null, Num(3), Arr(<<>>),
                          Obj([values |-> Arr(<<Row, Row>>)]) } }
    \cup { Obj(With([type |-> T_use], "db", db)) :
             db \in { Absent, Null, DbX, Str(<<>>), Obj([db |-> DbX]), Obj(NoFields),
                      Num(5), Arr(<<DbX>>) } }
    \cup { Null, Undefined, Str(<<"x">>), Num(1), Arr(<<Use(DbX)>>),
           Obj(NoFields), Obj([type |-> Null]),
           Obj([type |-> Str(<<"s","e","l","e","c","t">>)]) }

\* the longest array of malformed statements
MaxShapeStmts == 2

ForEachShape(statement) ==
  /\ pc = "forEach"
  /\ ast.k = "array"
  /\ Len(ast.e) < MaxShapeStmts
  /\ ast' = Arr(Append(ast.e, statement))
  /\ Step(statement)

NextShapes ==
  \/ CallArray
  \/ \E statement \in ShapeStatements : ForEachShape(statement)
  \/ Return

SpecShapes == Init /\ [][NextShapes]_vars

\* C7: on an array of statements of any shape the analyzer never raises;
\* what it has accumulated after a malformed statement is what the statements
\* around it call for (created names in order, rows counted), and every
\* column name and data type is a string.
C7_NeverRaises ==
  /\ pc # "raised"
  /\ Len(tableMap) = Len(CreateOrder(statements))
  /\ \A i \in 1..Len(tableMap) :
       /\ tableMap[i].key = CreateOrder(statements)[i]
       /\ tableMap[i].value.rowCount = ExpectedRowCount(statements, tableMap[i].key)
       /\ \A c \in 1..Len(tableMap[i].value.columns) :
            /\ tableMap[i].value.columns[c].columnName.k = "string"
            /\ tableMap[i].value.columns[c].dataType.k = "string"

\* C7 witness: a create whose definition list holds null, a string and
\* entries without column or type was followed by an insert; the call
\* returned the table with "unknown" columns and the row counted.
C7_Witness ==
  /\ pc = "done"
  /\ statements = <<ShapeCreate(NameA, BrokenDefs), ShapeInsert(NameA, Arr(<<Row>>))>>
  /\ result.totalTables = 1
  /\ result.tables[1].rowCount = 1
  /\ result.tables[1].columns
       = <<[columnName |-> Str(Unknown), dataType |-> Str(Unknown)],
           [columnName |-> Str(Unknown), dataType |-> Str(Unknown)]>>

\* C11: in every result of analyzeSqlAst, databaseName is null or a string,
\* never an object or another non-string value.
C11_DatabaseNameIsStringOrNull ==
  pc = "done" => result.databaseName.k \in {"null", "string"}

\* the names that have an entry in the Map m
Keys(m) == { m[i].key : i \in 1..Len(m) }

\* C12: over every single invocation of the callback and every table name T,
\* T's rowCount afterwards is 0 when the statement is a create-table for T,
\* and otherwise T had an entry before and its rowCount is at least what it
\* was; no entry disappears and no rowCount is negative.
C12_RowCountMonotone ==
  [][Stepped =>
       /\ Keys(tableMap) \subseteq Keys(tableMap')
       /\ \A T \in Keys(tableMap') :
            /\ MapGet(tableMap', T).rowCount \in Nat
            /\ IF IsCreateOf(Current, T)
               THEN MapGet(tableMap', T).rowCount = 0
               ELSE /\ T \in Keys(tableMap)
                    /\ MapGet(tableMap', T).rowCount >= MapGet(tableMap, T).rowCount]_vars

\* C12 witness: two inserts into a created name were processed one after the
\* other, and the count after the second is the count after the first plus
\* the second one's tuples.
C12_Witness ==
  /\ pc = "forEach"
  /\ processed = 3
  /\ \E T \in Keys(tableMap) :
       /\ IsCreateOf(statements[1], T)
       /\ IsInsertInto(statements[2], T)
       /\ IsInsertInto(statements[3], T)
       /\ TupleCount(statements[2]) = 2
       /\ TupleCount(statements[3]) = 1
       /\ MapGet(tableMap, T).rowCount = 3

(***************************************************************************)
(* analyzeSqlAst called again and again, as the main process does: once at *)
(* startup and once per open-file-dialog request.  Between two calls the   *)
(* variables still hold what the call before left in result and tableMap;  *)
(* call holds the argument and the result of one earlier call, the one the *)
(* caller chose to keep.                                                   *)
(***************************************************************************)
CallStatements ==
  { Use(DbX), Use(DbY),
    CreateTable(NameA, DefsOne), CreateTable(ParserRef(NameB), DefsTwo),
    Insert(NameA, Arr(<<Row, Row>>)), InsertNoValues(NameB) }

\* the longest statement array of a repeated call
MaxCallStmts == 2

ForEachCall(statement) ==
  /\ pc = "forEach"
  /\ ast.k = "array"
  /\ Len(ast.e) < MaxCallStmts
  /\ ast' = Arr(Append(ast.e, statement))
  /\ Step(statement)

\* the call has returned and the caller goes on to the next one, keeping
\* either the result it held before or the one just returned
CallAgain(keep) ==
  /\ pc = "done"
  /\ pc' = "idle"
  /\ call' = IF keep
             THEN (IF call.fn = "analyzeSqlAst" THEN [call EXCEPT !.between = TRUE]
                                                ELSE call)
             ELSE [fn |-> "analyzeSqlAst", arg |-> ast, out |-> result,
                   between |-> FALSE]
  /\ UNCHANGED <<ast, processed, result, tableMap>>

NextCalls ==
  \/ CallArray
  \/ \E v \in TopLevelValues : CallValue(v)
  \/ \E statement \in CallStatements : ForEachCall(statement)
  \/ ForEachValue
  \/ Return
  \/ \E keep \in BOOLEAN : CallAgain(keep)

SpecCalls == Init /\ [][NextCalls]_vars

\* C13: a call starts from an empty accumulator whatever the calls before it
\* left behind, and a call that returns on the same input as an earlier call,
\* with or without other calls in between, returns an equal result.
C13_CallsAreIndependent ==
  /\ (pc = "forEach" /\ processed = 0) => (tableMap = <<>> /\ result = EmptyResult)
  /\ (pc = "done" /\ call.fn = "analyzeSqlAst" /\ call.arg = ast) => call.out = result

\* C13 witness: an insert into a never-created name returned no tables, a
\* call in between created that name, and the same insert alone returns no
\* tables again.
C13_Witness ==
  /\ pc = "done"
  /\ call.fn = "analyzeSqlAst"
  /\ call.between
  /\ call.arg = ast
  /\ ast = Arr(<<Insert(NameA, Arr(<<Row, Row>>))>>)
  /\ result.tables = <<>>
  /\ call.out = result

(***************************************************************************)
(* extractColumns called directly, on definition lists grown one entry at  *)
(* a time and on values that are no lists.                                 *)
(***************************************************************************)
\* values found in the column field of a definition entry
ColumnFields ==
  { Absent, Null, Num(3), Str(<<"i","d">>),
    Obj([column |-> Str(<<"n","a","m","e">>)]),
    Obj([column |-> Num(3)]),
    Obj([column |-> Obj([column |-> Str(<<"q","t","y">>)])]),
    Obj([column |-> Obj([column |-> Obj([column |-> Str(<<"z">>)])])]) }

\* an entry of a definition list with the given resource and column fields
DefEntry(resource, column) ==
  Obj(With(With(NoFields, "resource", resource), "column", column))

T_constraint == Str(<<"c","o","n","s","t","r","a","i","n","t">>)

DefEntries ==
  { DefEntry(T_column, column) : column \in ColumnFields }
    \cup { DefEntry(resource, column) :
             resource \in { Absent, T_constraint }, column \in { Absent, Str(<<"i","d">>) } }
    \cup { ConstraintDef, ColumnDef(NameA, TypeVarchar50) }
    \cup { Null, Undefined, Num(1), Str(<<"x">>) }

\* the longest definition list
MaxDefs == 3

\* create_definitions that is no array, and the empty array
NonLists == { Arr(<<>>), Undefined, Null, Num(3), Str(<<"i","d">>), Obj(NoFields), DefEntry(T_column, NameA) }

CallExtractColumns(definitions) ==
  /\ call' = [fn |-> "extractColumns", arg |-> definitions, out |-> extractColumns(definitions)]
  /\ UNCHANGED <<pc, ast, processed, result, tableMap>>

\* extractColumns called on the list of the last call with one more entry
CallExtractColumnsLonger(entry) ==
  /\ call.fn = "extractColumns"
  /\ call.arg.k = "array"
  /\ Len(call.arg.e) < MaxDefs
  /\ CallExtractColumns(Arr(Append(call.arg.e, entry)))

NextColumns ==
  \/ \E definitions \in NonLists : CallExtractColumns(definitions)
  \/ \E entry \in DefEntries : CallExtractColumnsLonger(entry)

SpecColumns == Init /\ [][NextColumns]_vars

\* an entry tagged resource "column"
Tagged(entry) == entry.k = "object" /\ Prop(entry, "resource") = T_column

\* the string in the column field of entry, or one or two levels under it;
\* "unknown" when none of the three is a string
NameOf(entry) ==
  LET direct == Prop(entry, "column")
      one    == Prop(direct, "column")
      two    == Prop(one, "column")
  IN IF direct.k = "string" THEN direct
     ELSE IF one.k = "string" THEN one
     ELSE IF two.k = "string" THEN two
     ELSE Str(Unknown)

\* the column names a definition list calls for
ExpectedNames(definitions) ==
  IF definitions.k # "array" THEN <<>>
  ELSE LET kept == SelectSeq(definitions.e, Tagged)
       IN [i \in 1..Len(kept) |-> NameOf(kept[i])]

\* C14: extractColumns returns one column per entry of the definition list
\* tagged resource "column", in declaration order, every other entry being
\* discarded; each columnName is the string found in the entry's column field
\* or one or two levels under it, "unknown" when there is none; a definition
\* list that is no sequence gives no columns.
C14_ColumnsAreTaggedEntries ==
  call.fn = "extractColumns" =>
    /\ call.out.k = "array"
    /\ [i \in 1..Len(call.out.e) |-> call.out.e[i].columnName] = ExpectedNames(call.arg)

\* C14 witness: a list of a column entry with its name two levels down, a
\* constraint entry and a column entry with a bare name gave two columns, in
\* that order.
C14_Witness ==
  /\ call.fn = "extractColumns"
  /\ call.arg = Arr(<<DefEntry(T_column, Obj([column |-> Obj([column |-> Str(<<"q","t","y">>)])])),
                      ConstraintDef,
                      DefEntry(T_column, Str(<<"i","d">>))>>)
  /\ Len(call.out.e) = 2
  /\ call.out.e[1].columnName = Str(<<"q","t","y">>)
  /\ call.out.e[2].columnName = Str(<<"i","d">>)

(***************************************************************************)
(* The open-file-dialog request: the click handler of the Load SQL File    *)
(* button invokes the IPC handler of the main process, which awaits the    *)
(* dialog, reads the chosen file, parses it and calls analyzeSqlAst; call  *)
(* holds the request in progress and the page of the renderer:             *)
(*   at      where the request is                                          *)
(*   dialog  what showOpenDialog resolved with                             *)
(*   read, parsed  whether readFileSync / astify have been called          *)
(*   thrown  the error on its way to the catch block                       *)
(*   out     the promise of the handler: pending, resolved or rejected     *)
(*   page    the button, currentAnalysis and the error shown               *)
(* The analyzer call inside the handler is the state machine above; pc is  *)
(* "idle" as long as the handler has not invoked it.  fs, dialog and the   *)
(* parser are libraries: what they return or throw is chosen freely.       *)
(***************************************************************************)
NoFileSelected == Str(<<"N","o"," ","f","i","l","e"," ","s","e","l","e","c","t","e","d">>)
FailedToLoad == Str(<<"F","a","i","l","e","d"," ","t","o"," ","l","o","a","d"," ","S","Q",
    "L"," ","f","i","l","e">>)

PathA == Str(<<"a",".","s","q","l">>)
PathB == Str(<<"b",".","s","q","l">>)

\* what dialog.showOpenDialog resolves with
DialogResults ==
  { [canceled |-> TRUE,  filePaths |-> <<>>],
    [canceled |-> FALSE, filePaths |-> <<>>],
    [canceled |-> TRUE,  filePaths |-> <<PathA>>],
    [canceled |-> FALSE, filePaths |-> <<PathA>>],
    [canceled |-> FALSE, filePaths |-> <<PathB, PathA>>] }

\* what fs.readFileSync throws
ReadErrors ==
  { Obj([code |-> Str(<<"E","N","O","E","N","T">>), message |-> Str(<<"E","N","O","E","N",
      "T",":"," ","n","o"," ","s","u","c","h"," ","f","i","l","e">>)]),
    Obj([code |-> Str(<<"E","I","S","D","I","R">>), message |-> Str(<<"E","I","S","D","I",
        "R",":"," ","i","l","l","e","g","a","l"," ","o","p","e","r","a","t","i","o",
        "n">>)]) }

\* what parser.astify throws
ParseErrors ==
  { Obj([name |-> Str(<<"S","y","n","t","a","x","E","r","r","o","r">>),
       message |-> Str(<<"E","x","p","e","c","t","e","d"," ","\"","C","R","E","A","T","E",
      "\"">>)]) }

Returns == [k |-> "returns"]

\* a TypeError raised by the analyzer, as an Error object
TypeErrorObject == Obj([name |-> Str(<<"T","y","p","e","E","r","r","o","r">>),
     message |-> Str(<<"C","a","n","n","o","t"," ","r","e","a","d"," ","p","r","o","p","e",
    "r","t","i","e","s">>)])

Pending == [state |-> "pending"]
Resolved(value) == [state |-> "resolved", value |-> value]
Rejected(reason) == [state |-> "rejected", reason |-> reason]

\* the page before the first click
InitialPage == [disabled |-> FALSE, currentAnalysis |-> Null, error |-> Undefined]
Page == IF call.fn = "open-file-dialog" THEN call.page ELSE InitialPage

\* renderer.js lines 68-75: the click disables the button and invokes the
\* handler, which calls dialog.showOpenDialog and awaits it
loadFileBtnClick ==
  /\ ~Page.disabled
  /\ call.fn = "open-file-dialog" => call.at = "returned"
  /\ call' = [fn |-> "open-file-dialog", at |-> "showOpenDialog",
              dialog |-> Undefined, read |-> FALSE, parsed |-> FALSE,
              thrown |-> Undefined, out |-> Pending,
              page |-> [Page EXCEPT !.disabled = TRUE]]
  /\ pc' = "idle"
  /\ UNCHANGED <<ast, processed, result, tableMap>>

\* lines 67-75 and 94-96: the dialog resolves; without a chosen path the
\* handler returns at once
showOpenDialog(r) ==
  /\ call.fn = "open-file-dialog"
  /\ call.at = "showOpenDialog"
  /\ call' = IF ~r.canceled /\ Len(r.filePaths) > 0
             THEN [call EXCEPT !.dialog = r, !.at = "readFileSync"]
             ELSE [call EXCEPT !.dialog = r, !.at = "settled",
                               !.out = Resolved([success |-> FALSE,
                                                 message |-> NoFileSelected])]
  /\ UNCHANGED <<pc, ast, processed, result, tableMap>>

\* line 79
readFileSync(outcome) ==
  /\ call.fn = "open-file-dialog"
  /\ call.at = "readFileSync"
  /\ call' = IF outcome = Returns
             THEN [call EXCEPT !.read = TRUE, !.at = "astify"]
             ELSE [call EXCEPT !.read = TRUE, !.at = "catch", !.thrown = outcome]
  /\ UNCHANGED <<pc, ast, processed, result, tableMap>>

\* lines 82-85
astify(outcome) ==
  /\ call.fn = "open-file-dialog"
  /\ call.at = "astify"
  /\ call' = IF outcome = Returns
             THEN [call EXCEPT !.parsed = TRUE, !.at = "analyzeSqlAst"]
             ELSE [call EXCEPT !.parsed = TRUE, !.at = "catch", !.thrown = outcome]
  /\ UNCHANGED <<pc, ast, processed, result, tableMap>>

\* line 88: the handler is inside analyzeSqlAst(ast)
InAnalyzer == call.fn = "open-file-dialog" /\ call.at = "analyzeSqlAst"

\* lines 88-93: the analyzer has returned
returnAnalysis ==
  /\ InAnalyzer
  /\ pc = "done"
  /\ call' = [call EXCEPT !.at = "settled",
                          !.out = Resolved([success |-> TRUE, analysis |-> result])]
  /\ UNCHANGED <<pc, ast, processed, result, tableMap>>

\* the catch block rethrowing instead of returning
catchError_Rethrows ==
  LET error == IF call.at = "catch" THEN call.thrown ELSE TypeErrorObject
  IN /\ call.fn = "open-file-dialog"
     /\ call.at = "catch" \/ (call.at = "analyzeSqlAst" /\ pc = "raised")
     /\ call' = [call EXCEPT !.at = "settled", !.out = Rejected(error)]
     /\ UNCHANGED <<pc, ast, processed, result, tableMap>>

\* lines 97-100: whatever was thrown inside the try block
catchError ==
  LET error == IF call.at = "catch" THEN call.thrown ELSE TypeErrorObject
      message == Get(error, "message")
  IN /\ call.fn = "open-file-dialog"
     /\ call.at = "catch" \/ (call.at = "analyzeSqlAst" /\ pc = "raised")
     /\ call' = [call EXCEPT !.at = "settled",
                             !.out = IF Throws(message)
                                     THEN Rejected(TypeErrorObject)
                                     ELSE Resolved([success |-> FALSE,
                                                    message |-> message])]
     /\ UNCHANGED <<pc, ast, processed, result, tableMap>>

\* renderer.js lines 75-95: the awaited promise has settled
loadFileBtnResume ==
  /\ call.fn = "open-file-dialog"
  /\ call.at = "settled"
  /\ call' = [call EXCEPT
       !.at = "returned",
       !.page = IF call.out.state = "rejected"
                THEN [@ EXCEPT !.disabled = FALSE, !.error = FailedToLoad]
                ELSE IF call.out.value.success
                THEN [disabled |-> FALSE,
                      currentAnalysis |-> call.out.value.analysis,
                      error |-> Undefined]
                ELSE [@ EXCEPT !.disabled = FALSE, !.error = call.out.value.message]]
  /\ UNCHANGED <<pc, ast, processed, result, tableMap>>

NextIpc ==
  \/ loadFileBtnClick
  \/ \E r \in DialogResults : showOpenDialog(r)
  \/ \E outcome \in {Returns} \cup ReadErrors : readFileSync(outcome)
  \/ \E outcome \in {Returns} \cup ParseErrors : astify(outcome)
  \/ InAnalyzer /\ CallArray
  \/ InAnalyzer /\ \E statement \in CallStatements : CallValue(statement)
  \/ InAnalyzer /\ \E statement \in CallStatements : ForEachCall(statement)
  \/ InAnalyzer /\ ForEachValue
  \/ InAnalyzer /\ Return
  \/ returnAnalysis
  \/ catchError
  \/ loadFileBtnResume

SpecIpc == Init /\ [][NextIpc]_vars

\* the request has been answered
Settled == call.fn = "open-file-dialog" /\ call.at \in {"settled", "returned"}
NoPath == call.dialog.canceled \/ Len(call.dialog.filePaths) = 0

\* C15: the handler never rejects; it resolves {success: true, analysis} only
\* after the file was read, the parser returned and the analyzer returned that
\* analysis; with the dialog cancelled or without a path it resolves
\* {success: false, "No file selected"}, readFileSync and astify not having
\* been called; when readFileSync or astify throws it resolves {success:
\* false, message} with the message of the error, the analyzer not having
\* been invoked.
C15_HandlerAlwaysResolves ==
  /\ call.fn = "open-file-dialog" => call.out.state # "rejected"
  /\ Settled =>
       /\ call.out.state = "resolved"
       /\ call.out.value.success =>
            /\ call.read /\ call.parsed
            /\ call.thrown = Undefined
            /\ pc = "done"
            /\ call.out.value.analysis = result
       /\ NoPath =>
            /\ call.out.value = [success |-> FALSE, message |-> NoFileSelected]
            /\ ~call.read /\ ~call.parsed
            /\ pc = "idle"
       /\ call.thrown # Undefined =>
            /\ call.thrown \in ReadErrors \cup ParseErrors
            /\ call.out.value = [success |-> FALSE, message |-> Get(call.thrown, "message")]
            /\ call.parsed <=> call.thrown \in ParseErrors
            /\ pc = "idle"

\* C15 witness: after a request that failed in the parser and one that was
\* cancelled, a third one was answered with the analysis of a created table
\* with counted rows.
C15_Witness ==
  /\ Settled
  /\ call.at = "settled"
  /\ call.page.error = NoFileSelected
  /\ call.out.value.success
  /\ call.out.value.analysis.totalTables = 1
  /\ call.out.value.analysis.tables[1].rowCount = 2

====
